---- MODULE Spec2Model ----
(***************************************************************************)
(* A model of the forward plugin: the per-upstream health check            *)
(* (host.Check, host.send, host.down, health.go lines 13-62), the request  *)
(* path (Forward.ServeDNS, Forward.match, Forward.list, health.go lines    *)
(* 87-223) and Forward.Forward and Forward.Lookup (lookup.go).             *)
(*                                                                         *)
(* The specifications share the variables.                                 *)
(*   Spec          concurrent callers of host.Check on the upstreams       *)
(*   FairSpec      the callers on one upstream, under fairness             *)
(*   SpecWrap      the callers, the failure counters near 2^32             *)
(*   SpecServe     one request in ServeDNS, every configuration and every  *)
(*                 health state                                            *)
(*   SpecForward   one request handed to ServeDNS, Forward or Lookup       *)
(*   SpecMatch     the match of ServeDNS, every zone and ignored names     *)
(*   SpecTransport ServeDNS, every forceTCP, TLS config, client transport  *)
(*   SpecLookup    Lookup, every OPT record, name and type                 *)
(***************************************************************************)
EXTENDS Naturals, Integers, Sequences, FiniteSets, TLC

\* ------------------------------------------------------------------ bounds

\* The largest number of configured upstreams (len(f.proxies)).
MaxProxies == 3

\* The number of goroutines that call host.Check concurrently.
NumCallers == 2

\* The number of unhealthy probes one upstream may report (caps the counters).
MaxSignals == 2

\* The largest configured max_fails.
MaxMaxfails == 1

\* A uint32 is kept as its two 16-bit halves, [hi, lo], worth hi * 2^16 + lo.
Uint16Mod == 65536

Proxies == 1..MaxProxies

\* The upstreams the health-check callers probe.
ProbedHosts == {1, 2}

\* The upstream whose reinstatement is followed under fairness.
FairHosts == {1}

Callers == 1..NumCallers

\* The value of a mutex nobody holds.
NoOwner == 0

\* What h.client.Exchange can return as its error.
ExchangeResults == {"nil", "ErrTruncated", "error"}

VARIABLES
    \* host (health.go): per upstream
    fails,        \* h.fails, the uint32 failure counter
    checking,     \* h.checking, the probe-in-flight flag
    mu,           \* h's mutex: NoOwner or the caller holding it
    hcFailures,   \* HealthcheckFailureCount.WithLabelValues(h.addr)
    \* one call of host.Check per caller
    pc,           \* where the caller is in Check
    chost,        \* the host the call is on (0: none)
    cexch,        \* the error h.client.Exchange returned
    cerr,         \* err, what h.send returned
    before,       \* history: h.fails when the call reached line 25
    returned,     \* history: how the caller's last call returned
    \* history of the probes, per upstream
    consec,       \* unhealthy exchanges completed since the last healthy one
    unhealthy     \* unhealthy exchanges completed in all

hvars == <<fails, checking, mu, hcFailures, pc, chost, cexch, cerr, before,
           returned, consec, unhealthy>>

\* Forward and one request in ServeDNS
VARIABLES
    nprox,        \* len(f.proxies); the upstreams are f.proxies[1..nprox]
    maxfails,     \* f.maxfails, a uint32
    qname,        \* state.Name(), the question's name, labels from the root
    rpc,          \* where the request is in ServeDNS, Forward or Lookup
    order,        \* what f.list() returned for the request
    idx,          \* the place in order the loop is at
    conn,         \* the connection of the running trial
    reply,        \* ret, the message read from the upstream (0: none)
    dials,        \* per upstream, the calls of proxy.Dial
    yields,       \* per upstream, the calls of proxy.Yield
    closes,       \* per upstream, the calls of conn.Close
    wrote,        \* the messages written to the client with w.WriteMsg
    requestCount, \* RequestCount.WithLabelValues(addr), per upstream
    result,       \* what ServeDNS returned
    nextCalls,    \* the calls of plugin.NextOrFailure
    trace         \* history: how each trial of the request ended

\* Forward's other fields and what the caller passes in: no step changes them
VARIABLES
    entry,        \* the method the request is handed to
    from,         \* f.from, labels from the root
    ignored,      \* f.ignored, a set of names
    forceTCP,     \* f.forceTCP
    tls,          \* per upstream, proxy.host.tlsConfig != nil
    cproto,       \* state.Proto(), the transport the client used
    ropt,         \* the OPT record of the request as it came in
    lname,        \* Lookup's name
    ltyp          \* Lookup's typ

cvars == <<entry, from, ignored, forceTCP, tls, cproto, ropt, lname, ltyp>>

\* What the request does besides
VARIABLES
    req,          \* r, the request message (state.Req in ServeDNS and Lookup)
    sreq,         \* the state.Req of the call of Forward
    upmsgs,       \* the messages written to upstreams with conn.WriteMsg
    dialLog,      \* the calls of proxy.Dial: the upstream and the proto
    logs,         \* the lines written with log.Printf
    rcodeCount,   \* RcodeCount.WithLabelValues(rc, addr), per upstream
    durations,    \* the observations of RequestDuration, per upstream
    nextLog,      \* the calls of plugin.NextOrFailure: message and result
    fresult       \* what Forward returned

xvars == <<req, sreq, upmsgs, dialLog, logs, rcodeCount, durations, nextLog,
           fresult>>

svars == <<nprox, maxfails, qname, rpc, order, idx, conn, reply, dials, yields,
           closes, wrote, requestCount, result, nextCalls, trace, cvars, xvars>>

vars == <<hvars, svars>>

\* ------------------------------------------------------------ host (health)

\* The uint32 of a small natural number.
U32(n) == [hi |-> (n \div Uint16Mod) % Uint16Mod, lo |-> n % Uint16Mod]

\* a > b on uint32 values.
GtU32(a, b) == a.hi > b.hi \/ (a.hi = b.hi /\ a.lo > b.lo)

\* atomic.AddUint32(&h.fails, d), for d < 2^16: the sum modulo 2^32.
AddUint32(x, d) ==
    [hi |-> (x.hi + ((x.lo + d) \div Uint16Mod)) % Uint16Mod,
     lo |-> (x.lo + d) % Uint16Mod]

\* host.send without lines 49-51: a truncated answer is an error.
sendTruncatedIsError(exch) == exch

\* host.send: the exchange's error, a truncated answer counting as none.
send(exch) == IF exch = "ErrTruncated" THEN "nil" ELSE exch

\* host.down with >= for > on line 61.
downAtMaxfails(h, maxfails_) ==
    IF maxfails_ = U32(0)
       THEN FALSE
       ELSE GtU32(fails[h], maxfails_) \/ fails[h] = maxfails_

\* host.down
down(h, maxfails_) ==
    IF maxfails_ = U32(0) THEN FALSE ELSE GtU32(fails[h], maxfails_)

\* Check, line 14: h.Lock()
CheckLock(c, h) ==
    /\ pc[c] = "idle"
    /\ mu[h] = NoOwner
    /\ mu' = [mu EXCEPT ![h] = c]
    /\ pc' = [pc EXCEPT ![c] = "L16"]
    /\ chost' = [chost EXCEPT ![c] = h]
    /\ returned' = [returned EXCEPT ![c] = "none"]
    /\ UNCHANGED <<fails, checking, hcFailures, cexch, cerr, before, consec, unhealthy,
                   svars>>

\* Check without lines 16-19: the flag is set but never tested.
CheckTestNoDebounce(c) ==
    /\ pc[c] = "L16"
    /\ checking' = [checking EXCEPT ![chost[c]] = TRUE]
    /\ pc' = [pc EXCEPT ![c] = "send"]
    /\ mu' = [mu EXCEPT ![chost[c]] = NoOwner]
    /\ UNCHANGED <<fails, hcFailures, chost, cexch, cerr, before, returned, consec, unhealthy,
                   svars>>

\* Check without line 22: the lock stays held while the exchange runs.
CheckTestKeepsLock(c) ==
    /\ pc[c] = "L16"
    /\ IF checking[chost[c]]
          THEN /\ pc' = [pc EXCEPT ![c] = "idle"]
               /\ chost' = [chost EXCEPT ![c] = 0]
               /\ returned' = [returned EXCEPT ![c] = "debounced"]
               /\ mu' = [mu EXCEPT ![chost[c]] = NoOwner]
               /\ UNCHANGED checking
          ELSE /\ checking' = [checking EXCEPT ![chost[c]] = TRUE]
               /\ pc' = [pc EXCEPT ![c] = "send"]
               /\ UNCHANGED <<chost, returned, mu>>
    /\ UNCHANGED <<fails, hcFailures, cexch, cerr, before, consec, unhealthy,
                   svars>>

\* Check, lines 16-22: under the lock, return when a probe is in flight, else
\* mark one in flight; unlock either way.
CheckTest(c) ==
    /\ pc[c] = "L16"
    /\ IF checking[chost[c]]
          THEN /\ pc' = [pc EXCEPT ![c] = "idle"]
               /\ chost' = [chost EXCEPT ![c] = 0]
               /\ returned' = [returned EXCEPT ![c] = "debounced"]
               /\ UNCHANGED checking
          ELSE /\ checking' = [checking EXCEPT ![chost[c]] = TRUE]
               /\ pc' = [pc EXCEPT ![c] = "send"]
               /\ UNCHANGED <<chost, returned>>
    /\ mu' = [mu EXCEPT ![chost[c]] = NoOwner]
    /\ UNCHANGED <<fails, hcFailures, cexch, cerr, before, consec, unhealthy,
                   svars>>

\* Check, line 24: err := h.send(); the exchange ends with any of its results.
CheckSend(c, exch) ==
    /\ pc[c] = "send"
    /\ exch = "error" => hcFailures[chost[c]] < MaxSignals
    /\ cexch' = [cexch EXCEPT ![c] = exch]
    /\ cerr' = [cerr EXCEPT ![c] = send(exch)]
    /\ before' = [before EXCEPT ![c] = fails[chost[c]]]
    /\ consec' = [consec EXCEPT ![chost[c]] = IF exch = "error" THEN @ + 1 ELSE 0]
    /\ unhealthy' = [unhealthy EXCEPT ![chost[c]] = IF exch = "error" THEN @ + 1 ELSE @]
    /\ pc' = [pc EXCEPT ![c] = "L25"]
    /\ UNCHANGED <<fails, checking, mu, hcFailures, chost, returned,
                   svars>>

\* Check with a return in the failure branch: lines 35-37 are skipped.
CheckUpdateReturnsOnError(c) ==
    /\ pc[c] = "L25"
    /\ IF cerr[c] # "nil"
          THEN /\ hcFailures' = [hcFailures EXCEPT ![chost[c]] = @ + 1]
               /\ fails' = [fails EXCEPT ![chost[c]] = AddUint32(@, 1)]
               /\ pc' = [pc EXCEPT ![c] = "idle"]
               /\ chost' = [chost EXCEPT ![c] = 0]
               /\ cexch' = [cexch EXCEPT ![c] = "none"]
               /\ cerr' = [cerr EXCEPT ![c] = "none"]
               /\ before' = [before EXCEPT ![c] = U32(0)]
               /\ returned' = [returned EXCEPT ![c] = "probed"]
          ELSE /\ fails' = [fails EXCEPT ![chost[c]] = U32(0)]
               /\ pc' = [pc EXCEPT ![c] = "L35"]
               /\ UNCHANGED <<hcFailures, chost, cexch, cerr, before, returned>>
    /\ UNCHANGED <<checking, mu, consec, unhealthy,
                   svars>>

\* Check with line 30 storing 1 instead of adding 1.
CheckUpdateStoresOne(c) ==
    /\ pc[c] = "L25"
    /\ IF cerr[c] # "nil"
          THEN /\ hcFailures' = [hcFailures EXCEPT ![chost[c]] = @ + 1]
               /\ fails' = [fails EXCEPT ![chost[c]] = U32(1)]
          ELSE /\ fails' = [fails EXCEPT ![chost[c]] = U32(0)]
               /\ UNCHANGED hcFailures
    /\ pc' = [pc EXCEPT ![c] = "L35"]
    /\ UNCHANGED <<checking, mu, chost, cexch, cerr, before, returned, consec, unhealthy,
                   svars>>

\* Check without the else branch of lines 31-33: a healthy probe resets nothing.
CheckUpdateNoReset(c) ==
    /\ pc[c] = "L25"
    /\ IF cerr[c] # "nil"
          THEN /\ hcFailures' = [hcFailures EXCEPT ![chost[c]] = @ + 1]
               /\ fails' = [fails EXCEPT ![chost[c]] = AddUint32(@, 1)]
          ELSE UNCHANGED <<fails, hcFailures>>
    /\ pc' = [pc EXCEPT ![c] = "L35"]
    /\ UNCHANGED <<checking, mu, chost, cexch, cerr, before, returned, consec, unhealthy,
                   svars>>

\* Check, lines 25-33: count the failure, or reset the counter.
CheckUpdate(c) ==
    /\ pc[c] = "L25"
    /\ IF cerr[c] # "nil"
          THEN /\ hcFailures' = [hcFailures EXCEPT ![chost[c]] = @ + 1]
               /\ fails' = [fails EXCEPT ![chost[c]] = AddUint32(@, 1)]
          ELSE /\ fails' = [fails EXCEPT ![chost[c]] = U32(0)]
               /\ UNCHANGED hcFailures
    /\ pc' = [pc EXCEPT ![c] = "L35"]
    /\ UNCHANGED <<checking, mu, chost, cexch, cerr, before, returned, consec, unhealthy,
                   svars>>

\* Check, line 35: h.Lock()
CheckRelock(c) ==
    /\ pc[c] = "L35"
    /\ mu[chost[c]] = NoOwner
    /\ mu' = [mu EXCEPT ![chost[c]] = c]
    /\ pc' = [pc EXCEPT ![c] = "L36"]
    /\ UNCHANGED <<fails, checking, hcFailures, chost, cexch, cerr, before, returned, consec, unhealthy,
                   svars>>

\* Check, lines 36-39: clear the flag, unlock, return.
CheckClear(c) ==
    /\ pc[c] = "L36"
    /\ checking' = [checking EXCEPT ![chost[c]] = FALSE]
    /\ mu' = [mu EXCEPT ![chost[c]] = NoOwner]
    /\ pc' = [pc EXCEPT ![c] = "idle"]
    /\ chost' = [chost EXCEPT ![c] = 0]
    /\ cexch' = [cexch EXCEPT ![c] = "none"]
    /\ cerr' = [cerr EXCEPT ![c] = "none"]
    /\ before' = [before EXCEPT ![c] = U32(0)]
    /\ returned' = [returned EXCEPT ![c] = "probed"]
    /\ UNCHANGED <<fails, hcFailures, consec, unhealthy,
                   svars>>

\* One step of one call of host.Check on one of the given upstreams.
CheckOn(c, hosts) ==
    \/ \E h \in hosts : CheckLock(c, h)
    \/ CheckTest(c)
    \/ \E exch \in ExchangeResults : CheckSend(c, exch)
    \/ CheckUpdate(c)
    \/ CheckRelock(c)
    \/ CheckClear(c)

\* One step of one call of host.Check.
Check(c) == CheckOn(c, ProbedHosts)

\* ------------------------------------------------------- Forward (request)

\* dns.RcodeServerFailure, and the 0 ServeDNS returns on success.
RcodeServerFailure == 2
RcodeSuccess == 0

\* f.from and f.ignored, as label sequences from the root.
Origin == <<"org", "example">>
Ignored == {<<"org", "example", "internal">>}

\* The names asked for: the zone, a name in it, a name under an ignored
\* subzone, a name outside the zone.
QNames == {<<"org", "example">>,
           <<"org", "example", "www">>,
           <<"org", "example", "internal", "db">>,
           <<"org", "other">>}

\* What the next plugin can return through plugin.NextOrFailure.
NextResults == {[rcode |-> RcodeSuccess, err |-> "nil"],
                [rcode |-> RcodeServerFailure, err |-> "next"]}

\* What rand.Int() is reduced to, and what rand.Perm(n) can return.
RandInts == {0, 1}
Perms(n) == {f \in [1..n -> 1..n] : \A i, j \in 1..n : f[i] = f[j] => i = j}

\* The exchange results the specification calls healthy.
Healthy == {"nil", "ErrTruncated"}

\* ServeDNS has not returned.
NoResult == [rcode |-> RcodeSuccess, err |-> "pending"]

\* Forward has not returned; msg is the upstream whose reply is returned
\* (0: nil).
NoForwardResult == [msg |-> 0, err |-> "pending"]

\* A message as its accessors show it: the question's name and type and the
\* OPT record (its UDP payload size and its DO bit), when it has one.
NoOpt == [present |-> FALSE, size |-> 0, do |-> FALSE]
Opt(size, do) == [present |-> TRUE, size |-> size, do |-> do]
Msg(name, qtype, opt) == [name |-> name, qtype |-> qtype, opt |-> opt]

\* The type of the question of the request that comes in.
OrigType == "A"

\* new(dns.Msg) after SetQuestion(name, typ): the question and no OPT record.
SetQuestion(name, typ) == Msg(name, typ, NoOpt)

\* request.Request.SizeAndDo(m) on the request orig: m gets an OPT record with
\* the payload size and the DO bit of orig's, when orig has one.
SizeAndDo(orig, m) ==
    IF orig.opt.present
       THEN [m EXCEPT !.opt = Opt(orig.opt.size, orig.opt.do)]
       ELSE m

\* dns.IsSubDomain, and plugin.Name(zone).Matches(child).
IsSubDomain(parent, child) ==
    /\ Len(parent) <= Len(child)
    /\ SubSeq(child, 1, Len(parent)) = parent
Matches(zone, child) == zone = child \/ IsSubDomain(zone, child)

\* Forward.isAllowedDomain without lines 190-192: the zone's own name is
\* looked up in f.ignored like every other name.
isAllowedDomainZoneToo(name) ==
    ~\E ignore \in ignored : Matches(ignore, name)

\* Forward.isAllowedDomain
isAllowedDomain(name) ==
    IF name = from
       THEN TRUE
       ELSE ~\E ignore \in ignored : Matches(ignore, name)

\* Forward.match
match(name) ==
    IF ~Matches(from, name) \/ ~isAllowedDomain(name) THEN FALSE ELSE TRUE

\* f.proxies: the configured upstreams in their order.
proxies == [i \in 1..nprox |-> i]

\* Forward.list with a duplicate in the swapped pair.
listSwapRepeats(ps, r, perm) ==
    CASE Len(ps) = 1 -> ps
      [] Len(ps) = 2 -> IF r % 2 = 0 THEN <<ps[2], ps[2]>> ELSE ps
      [] OTHER -> [i \in 1..Len(ps) |-> ps[perm[i]]]

\* Forward.list: r is what rand.Int() returned, perm what rand.Perm returned.
list(ps, r, perm) ==
    CASE Len(ps) = 1 -> ps
      [] Len(ps) = 2 -> IF r % 2 = 0 THEN <<ps[2], ps[1]>> ELSE ps
      [] OTHER -> [i \in 1..Len(ps) |-> ps[perm[i]]]

\* proxy.Down: the upstream's host.down.
Down(p, maxfails_) == down(p, maxfails_)

\* Lines 125-131 with the two tests in the other order: f.forceTCP has the
\* last word.
transportForceLast(clientProto, force, hasTLS) ==
    LET p1 == IF hasTLS THEN "tcp-tls" ELSE clientProto
    IN  IF force THEN "tcp" ELSE p1

\* ServeDNS, lines 125-131: proto starts as state.Proto(), becomes "tcp" when
\* f.forceTCP is set and then "tcp-tls" when the upstream has a TLS config.
transport(clientProto, force, hasTLS) ==
    LET p1 == IF force THEN "tcp" ELSE clientProto
    IN  IF hasTLS THEN "tcp-tls" ELSE p1

\* The proto of the trial of order[idx].
proto == transport(cproto, forceTCP, tls[order[idx]])

\* A line of log.Printf about upstream p.
LogLine(p, pr, what) == [proxy |-> p, proto |-> pr, what |-> what]

\* The trial of order[idx] ends with event ev and the loop moves on.
NextTrial(ev) ==
    /\ trace' = Append(trace, [proxy |-> order[idx], ev |-> ev])
    /\ idx' = idx + 1
    /\ rpc' = "loop"

\* ServeDNS answering a name that does not match itself, with errInvalidDomain.
ServeMatchRefuses ==
    /\ rpc = "start"
    /\ IF ~match(qname)
          THEN /\ result' = [rcode |-> RcodeServerFailure,
                             err |-> "errInvalidDomain"]
               /\ rpc' = "done"
          ELSE /\ rpc' = "list"
               /\ UNCHANGED result
    /\ UNCHANGED <<nprox, maxfails, qname, order, idx, conn, reply, dials,
                   yields, closes, wrote, requestCount, trace, nextCalls,
                   hvars, cvars, xvars>>

\* ServeDNS, lines 113-116: a name that does not match goes to the next plugin.
ServeMatch ==
    /\ rpc = "start"
    /\ IF ~match(qname)
          THEN /\ \E res \in NextResults :
                     /\ result' = res
                     /\ nextLog' = Append(nextLog, [msg |-> req, ret |-> res])
               /\ nextCalls' = nextCalls + 1
               /\ rpc' = "done"
          ELSE /\ rpc' = "list"
               /\ UNCHANGED <<result, nextCalls, nextLog>>
    /\ UNCHANGED <<nprox, maxfails, qname, order, idx, conn, reply, dials,
                   yields, closes, wrote, requestCount, trace, hvars, cvars,
                   req, sreq, upmsgs, dialLog, logs, rcodeCount, durations,
                   fresult>>

\* ServeDNS, line 118: f.list()
ServeList ==
    /\ rpc = "list"
    /\ \E r \in RandInts, perm \in Perms(nprox) : order' = list(proxies, r, perm)
    /\ idx' = 1
    /\ rpc' = "loop"
    /\ UNCHANGED <<nprox, maxfails, qname, conn, reply, dials, yields, closes,
                   wrote, requestCount, result, nextCalls, trace, hvars,
                   cvars, xvars>>

\* ServeDNS returning 0, nil on line 176.
ServeLoopExhaustedIsSuccess ==
    /\ rpc = "loop"
    /\ IF idx > Len(order)
          THEN /\ result' = [rcode |-> RcodeSuccess, err |-> "nil"]
               /\ rpc' = "done"
               /\ UNCHANGED <<idx, trace>>
          ELSE IF Down(order[idx], maxfails)
                  THEN /\ NextTrial("skip")
                       /\ UNCHANGED result
                  ELSE /\ rpc' = "dial"
                       /\ UNCHANGED <<idx, trace, result>>
    /\ UNCHANGED <<nprox, maxfails, qname, order, conn, reply, dials, yields,
                   closes, wrote, requestCount, nextCalls, hvars, cvars,
                   xvars>>

\* ServeDNS, lines 118-121 and 176: the next upstream of the order is skipped
\* when it is down; after the last one the request has failed.
ServeLoop ==
    /\ rpc = "loop"
    /\ IF idx > Len(order)
          THEN /\ result' = [rcode |-> RcodeServerFailure, err |-> "errNoHealthy"]
               /\ rpc' = "done"
               /\ UNCHANGED <<idx, trace>>
          ELSE IF Down(order[idx], maxfails)
                  THEN /\ NextTrial("skip")
                       /\ UNCHANGED result
                  ELSE /\ rpc' = "dial"
                       /\ UNCHANGED <<idx, trace, result>>
    /\ UNCHANGED <<nprox, maxfails, qname, order, conn, reply, dials, yields,
                   closes, wrote, requestCount, nextCalls, hvars, cvars,
                   xvars>>

\* ServeDNS counting a failed dial on the upstream's failure counter.
ServeDialCountsFailure(ok) ==
    /\ rpc = "dial"
    /\ dials' = [dials EXCEPT ![order[idx]] = @ + 1]
    /\ dialLog' = Append(dialLog, [proxy |-> order[idx], proto |-> proto])
    /\ IF ok
          THEN /\ conn' = "open"
               /\ rpc' = "write"
               /\ UNCHANGED <<idx, trace, logs, fails>>
          ELSE /\ logs' = Append(logs, LogLine(order[idx], proto, "connect"))
               /\ fails' = [fails EXCEPT ![order[idx]] = AddUint32(@, 1)]
               /\ NextTrial("dialfail")
               /\ UNCHANGED conn
    /\ UNCHANGED <<nprox, maxfails, qname, order, reply, yields, closes, wrote,
                   requestCount, result, nextCalls, cvars, req, sreq, upmsgs,
                   rcodeCount, durations, nextLog, fresult>>
    /\ UNCHANGED <<checking, mu, hcFailures, pc, chost, cexch, cerr, before,
                   returned, consec, unhealthy>>

\* ServeDNS, lines 123-137: the proto is worked out and proxy.Dial(proto)
\* gives a connection or fails; a failure is logged.
ServeDial(ok) ==
    /\ rpc = "dial"
    /\ dials' = [dials EXCEPT ![order[idx]] = @ + 1]
    /\ dialLog' = Append(dialLog, [proxy |-> order[idx], proto |-> proto])
    /\ IF ok
          THEN /\ conn' = "open"
               /\ rpc' = "write"
               /\ UNCHANGED <<idx, trace, logs>>
          ELSE /\ logs' = Append(logs, LogLine(order[idx], proto, "connect"))
               /\ NextTrial("dialfail")
               /\ UNCHANGED conn
    /\ UNCHANGED <<nprox, maxfails, qname, order, reply, yields, closes, wrote,
                   requestCount, result, nextCalls, hvars, cvars, req, sreq,
                   upmsgs, rcodeCount, durations, nextLog, fresult>>

\* ServeDNS dialling the same upstream again after a failed write.
ServeWriteRetries(ok) ==
    /\ rpc = "write"
    /\ IF ok
          THEN /\ upmsgs' = Append(upmsgs, [proxy |-> order[idx], msg |-> req])
               /\ rpc' = "read"
               /\ UNCHANGED <<idx, trace, conn, closes, logs>>
          ELSE /\ logs' = Append(logs, LogLine(order[idx], proto, "write"))
               /\ closes' = [closes EXCEPT ![order[idx]] = @ + 1]
               /\ conn' = "none"
               /\ rpc' = "dial"
               /\ UNCHANGED <<idx, trace, upmsgs>>
    /\ UNCHANGED <<nprox, maxfails, qname, order, reply, dials, yields, wrote,
                   requestCount, result, nextCalls, hvars, cvars, req, sreq,
                   dialLog, rcodeCount, durations, nextLog, fresult>>

\* ServeDNS, lines 139-150: conn.WriteMsg(state.Req); a failed write is logged
\* and closes the connection.  (conn.UDPSize, lines 139-143, is a field of
\* the connection that no step of the request reads.)
ServeWrite(ok) ==
    /\ rpc = "write"
    /\ IF ok
          THEN /\ upmsgs' = Append(upmsgs, [proxy |-> order[idx], msg |-> req])
               /\ rpc' = "read"
               /\ UNCHANGED <<idx, trace, conn, closes, logs>>
          ELSE /\ logs' = Append(logs, LogLine(order[idx], proto, "write"))
               /\ closes' = [closes EXCEPT ![order[idx]] = @ + 1]
               /\ conn' = "none"
               /\ NextTrial("writefail")
               /\ UNCHANGED upmsgs
    /\ UNCHANGED <<nprox, maxfails, qname, order, reply, dials, yields, wrote,
                   requestCount, result, nextCalls, hvars, cvars, req, sreq,
                   dialLog, rcodeCount, durations, nextLog, fresult>>

\* ServeDNS yielding the connection of a failed read instead of closing it.
ServeReadYieldsOnError(ok) ==
    /\ rpc = "read"
    /\ IF ok
          THEN /\ reply' = order[idx]
               /\ rpc' = "relay"
               /\ UNCHANGED <<idx, trace, conn, yields, logs>>
          ELSE /\ logs' = Append(logs, LogLine(order[idx], proto, "read"))
               /\ yields' = [yields EXCEPT ![order[idx]] = @ + 1]
               /\ conn' = "none"
               /\ NextTrial("readfail")
               /\ UNCHANGED reply
    /\ UNCHANGED <<nprox, maxfails, qname, order, dials, closes, wrote,
                   requestCount, result, nextCalls, hvars, cvars, req, sreq,
                   upmsgs, dialLog, rcodeCount, durations, nextLog, fresult>>

\* ServeDNS returning the error of a failed read to its caller.
ServeReadPropagates(ok) ==
    /\ rpc = "read"
    /\ IF ok
          THEN /\ reply' = order[idx]
               /\ rpc' = "relay"
               /\ UNCHANGED <<idx, trace, conn, closes, logs, result>>
          ELSE /\ logs' = Append(logs, LogLine(order[idx], proto, "read"))
               /\ closes' = [closes EXCEPT ![order[idx]] = @ + 1]
               /\ conn' = "none"
               /\ trace' = Append(trace, [proxy |-> order[idx],
                                          ev |-> "readfail"])
               /\ result' = [rcode |-> RcodeServerFailure, err |-> "read"]
               /\ rpc' = "done"
               /\ UNCHANGED <<idx, reply>>
    /\ UNCHANGED <<nprox, maxfails, qname, order, dials, yields, wrote,
                   requestCount, nextCalls, hvars, cvars, req, sreq, upmsgs,
                   dialLog, rcodeCount, durations, nextLog, fresult>>

\* ServeDNS, lines 152-158: conn.ReadMsg(); a failed read is logged and closes
\* the connection.
ServeRead(ok) ==
    /\ rpc = "read"
    /\ IF ok
          THEN /\ reply' = order[idx]
               /\ rpc' = "relay"
               /\ UNCHANGED <<idx, trace, conn, closes, logs>>
          ELSE /\ logs' = Append(logs, LogLine(order[idx], proto, "read"))
               /\ closes' = [closes EXCEPT ![order[idx]] = @ + 1]
               /\ conn' = "none"
               /\ NextTrial("readfail")
               /\ UNCHANGED reply
    /\ UNCHANGED <<nprox, maxfails, qname, order, dials, yields, wrote,
                   requestCount, result, nextCalls, hvars, cvars, req, sreq,
                   upmsgs, dialLog, rcodeCount, durations, nextLog, fresult>>

\* ServeDNS without the return of line 173: the loop goes on after a reply.
ServeRelayGoesOn ==
    /\ rpc = "relay"
    /\ wrote' = Append(wrote, reply)
    /\ yields' = [yields EXCEPT ![order[idx]] = @ + 1]
    /\ conn' = "none"
    /\ requestCount' = [requestCount EXCEPT ![order[idx]] = @ + 1]
    /\ rcodeCount' = [rcodeCount EXCEPT ![order[idx]] = @ + 1]
    /\ durations' = [durations EXCEPT ![order[idx]] = @ + 1]
    /\ NextTrial("ok")
    /\ UNCHANGED <<nprox, maxfails, qname, order, reply, dials, closes,
                   result, nextCalls, hvars, cvars, req, sreq, upmsgs,
                   dialLog, logs, nextLog, fresult>>

\* ServeDNS, lines 160-173: the reply goes to the client, the connection back
\* to the upstream, the request, its rcode and its duration are recorded and
\* ServeDNS returns.
ServeRelay ==
    /\ rpc = "relay"
    /\ wrote' = Append(wrote, reply)
    /\ yields' = [yields EXCEPT ![order[idx]] = @ + 1]
    /\ conn' = "none"
    /\ requestCount' = [requestCount EXCEPT ![order[idx]] = @ + 1]
    /\ rcodeCount' = [rcodeCount EXCEPT ![order[idx]] = @ + 1]
    /\ durations' = [durations EXCEPT ![order[idx]] = @ + 1]
    /\ trace' = Append(trace, [proxy |-> order[idx], ev |-> "ok"])
    /\ result' = [rcode |-> RcodeSuccess, err |-> "nil"]
    /\ rpc' = "done"
    /\ UNCHANGED <<nprox, maxfails, qname, order, idx, reply, dials, closes,
                   nextCalls, hvars, cvars, req, sreq, upmsgs, dialLog, logs,
                   nextLog, fresult>>

\* One step of the request in ServeDNS.
ServeDNS ==
    \/ ServeMatch
    \/ ServeList
    \/ ServeLoop
    \/ \E ok \in BOOLEAN : ServeDial(ok)
    \/ \E ok \in BOOLEAN : ServeWrite(ok)
    \/ \E ok \in BOOLEAN : ServeRead(ok)
    \/ ServeRelay

\* ------------------------------------------- Forward and Lookup (lookup.go)

\* How proxy.connect can end: the dial, the write or the read fails, or the
\* reply is read.
ConnectResults == {"dialfail", "writefail", "readfail", "ok"}

\* proxy.connect(state, f.forceTCP, true) on upstream p, ending as outcome
\* says: the exchange of one trial as the trial loop describes it.  The
\* connection is dialled with the trial's proto, state.Req is written, a
\* connection whose write or read failed is closed, and after a reply the
\* connection is yielded and the request recorded.
connect(p, outcome) ==
    /\ dials' = [dials EXCEPT ![p] = @ + 1]
    /\ dialLog' = Append(dialLog,
                         [proxy |-> p,
                          proto |-> transport(cproto, forceTCP, tls[p])])
    /\ upmsgs' = IF outcome \in {"readfail", "ok"}
                    THEN Append(upmsgs, [proxy |-> p, msg |-> sreq])
                    ELSE upmsgs
    /\ closes' = IF outcome \in {"writefail", "readfail"}
                    THEN [closes EXCEPT ![p] = @ + 1]
                    ELSE closes
    /\ yields' = IF outcome = "ok" THEN [yields EXCEPT ![p] = @ + 1] ELSE yields
    /\ requestCount' = IF outcome = "ok"
                          THEN [requestCount EXCEPT ![p] = @ + 1]
                          ELSE requestCount
    /\ rcodeCount' = IF outcome = "ok"
                        THEN [rcodeCount EXCEPT ![p] = @ + 1]
                        ELSE rcodeCount
    /\ durations' = IF outcome = "ok"
                       THEN [durations EXCEPT ![p] = @ + 1]
                       ELSE durations

\* The trial of order[idx] in Forward ends with event ev and the loop moves on.
FwdNextTrial(ev) ==
    /\ trace' = Append(trace, [proxy |-> order[idx], ev |-> ev])
    /\ idx' = idx + 1
    /\ rpc' = "floop"

\* Forward, line 17: f.list()
FwdList ==
    /\ rpc = "flist"
    /\ \E r \in RandInts, perm \in Perms(nprox) : order' = list(proxies, r, perm)
    /\ idx' = 1
    /\ rpc' = "floop"
    /\ UNCHANGED <<nprox, maxfails, qname, conn, reply, dials, yields, closes,
                   wrote, requestCount, result, nextCalls, trace, hvars,
                   cvars, xvars>>

\* Forward without lines 18-20: an upstream that is down is tried too.
FwdLoopTriesDown ==
    /\ rpc = "floop"
    /\ IF idx > Len(order)
          THEN /\ fresult' = [msg |-> 0, err |-> "errNoHealthy"]
               /\ rpc' = "fdone"
          ELSE /\ rpc' = "fconnect"
               /\ UNCHANGED fresult
    /\ UNCHANGED <<nprox, maxfails, qname, order, idx, conn, reply, dials,
                   yields, closes, wrote, requestCount, result, nextCalls,
                   trace, hvars, cvars, req, sreq, upmsgs, dialLog, logs,
                   rcodeCount, durations, nextLog>>

\* Forward, lines 17-20 and 30: the next upstream of the order is skipped when
\* it is down; after the last one Forward returns nil, errNoHealthy.
FwdLoop ==
    /\ rpc = "floop"
    /\ IF idx > Len(order)
          THEN /\ fresult' = [msg |-> 0, err |-> "errNoHealthy"]
               /\ rpc' = "fdone"
               /\ UNCHANGED <<idx, trace>>
          ELSE IF Down(order[idx], maxfails)
                  THEN /\ FwdNextTrial("skip")
                       /\ UNCHANGED fresult
                  ELSE /\ rpc' = "fconnect"
                       /\ UNCHANGED <<idx, trace, fresult>>
    /\ UNCHANGED <<nprox, maxfails, qname, order, conn, reply, dials, yields,
                   closes, wrote, requestCount, result, nextCalls, hvars,
                   cvars, req, sreq, upmsgs, dialLog, logs, rcodeCount,
                   durations, nextLog>>

\* Forward, lines 22-28: proxy.connect; an error is logged and the loop goes
\* on, a reply is returned with a nil error.
FwdConnect(outcome) ==
    /\ rpc = "fconnect"
    /\ connect(order[idx], outcome)
    /\ IF outcome # "ok"
          THEN /\ logs' = Append(logs, LogLine(order[idx], "none", "connect"))
               /\ FwdNextTrial(outcome)
               /\ UNCHANGED <<reply, fresult>>
          ELSE /\ reply' = order[idx]
               /\ fresult' = [msg |-> order[idx], err |-> "nil"]
               /\ trace' = Append(trace, [proxy |-> order[idx], ev |-> "ok"])
               /\ rpc' = "fdone"
               /\ UNCHANGED <<idx, logs>>
    /\ UNCHANGED <<nprox, maxfails, qname, order, conn, wrote, result,
                   nextCalls, hvars, cvars, req, sreq, nextLog>>

\* One step of a call of Forward.
Forward ==
    \/ FwdList
    \/ FwdLoop
    \/ \E outcome \in ConnectResults : FwdConnect(outcome)

\* Lookup without line 38: the new message gets no OPT record.
LookupNoSizeAndDo ==
    /\ rpc = "lookup"
    /\ sreq' = SetQuestion(lname, ltyp)
    /\ rpc' = "flist"
    /\ UNCHANGED <<nprox, maxfails, qname, order, idx, conn, reply, dials,
                   yields, closes, wrote, requestCount, result, nextCalls,
                   trace, hvars, cvars, req, upmsgs, dialLog, logs,
                   rcodeCount, durations, nextLog, fresult>>

\* Lookup, lines 36-42: a new message with the question (name, typ) and the
\* request's size and DO bit is made the state.Req of a call of Forward, whose
\* result Lookup returns.
Lookup ==
    /\ rpc = "lookup"
    /\ sreq' = SizeAndDo(req, SetQuestion(lname, ltyp))
    /\ rpc' = "flist"
    /\ UNCHANGED <<nprox, maxfails, qname, order, idx, conn, reply, dials,
                   yields, closes, wrote, requestCount, result, nextCalls,
                   trace, hvars, cvars, req, upmsgs, dialLog, logs,
                   rcodeCount, durations, nextLog, fresult>>

\* --------------------------------------------------------- specifications

InitHosts ==
    /\ fails = [h \in Proxies |-> U32(0)]
    /\ checking = [h \in Proxies |-> FALSE]
    /\ mu = [h \in Proxies |-> NoOwner]
    /\ hcFailures = [h \in Proxies |-> 0]
    /\ consec = [h \in Proxies |-> 0]
    /\ unhealthy = [h \in Proxies |-> 0]

InitCallers ==
    /\ pc = [c \in Callers |-> "idle"]
    /\ chost = [c \in Callers |-> 0]
    /\ cexch = [c \in Callers |-> "none"]
    /\ cerr = [c \in Callers |-> "none"]
    /\ before = [c \in Callers |-> U32(0)]
    /\ returned = [c \in Callers |-> "none"]

\* A request that nothing was done for yet.
InitRequest ==
    /\ order = <<>>
    /\ idx = 0
    /\ conn = "none"
    /\ reply = 0
    /\ dials = [p \in Proxies |-> 0]
    /\ yields = [p \in Proxies |-> 0]
    /\ closes = [p \in Proxies |-> 0]
    /\ wrote = <<>>
    /\ requestCount = [p \in Proxies |-> 0]
    /\ result = NoResult
    /\ nextCalls = 0
    /\ trace = <<>>
    /\ upmsgs = <<>>
    /\ dialLog = <<>>
    /\ logs = <<>>
    /\ rcodeCount = [p \in Proxies |-> 0]
    /\ durations = [p \in Proxies |-> 0]
    /\ nextLog = <<>>
    /\ fresult = NoForwardResult

\* The methods a request can be handed to, and where each starts.
Entries == {"ServeDNS", "Forward", "Lookup"}
InitEntry(e) ==
    /\ entry = e
    /\ rpc = CASE e = "ServeDNS" -> "start"
               [] e = "Forward" -> "flist"
               [] e = "Lookup" -> "lookup"

\* The name and the types Lookup is called with.
LookupName == <<"org", "example", "aux">>
LookupTypes == {"A", "AAAA"}

\* A forwarder for the zone Origin without forced TCP and without TLS, a
\* client on UDP.
InitZone ==
    /\ from = Origin
    /\ ignored = Ignored
InitTransportPlain ==
    /\ forceTCP = FALSE
    /\ tls = [p \in Proxies |-> FALSE]
    /\ cproto = "udp"
InitLookupPlain ==
    /\ ropt = NoOpt
    /\ lname = LookupName
    /\ ltyp = "A"

\* The request message as it came in; a call of Forward gets it as it is.
InitMessage ==
    /\ req = Msg(qname, OrigType, ropt)
    /\ sreq = req

\* The health checks alone: the probed upstreams, no failure yet, no request.
Init ==
    /\ InitHosts
    /\ InitCallers
    /\ InitRequest
    /\ InitEntry("ServeDNS")
    /\ nprox = Cardinality(ProbedHosts)
    /\ maxfails = U32(0)
    /\ qname = Origin
    /\ InitZone
    /\ InitTransportPlain
    /\ InitLookupPlain
    /\ InitMessage

Next == \E c \in Callers : Check(c)

Spec == Init /\ [][Next]_vars

\* The failure counts a request can meet for max_fails m: none, exactly m,
\* one more than m.
FailValues(m) == {0, m, m + 1}

\* The health state a request can meet: 1..MaxProxies upstreams, every
\* max_fails, every upstream with one of the failure counts, no probe running.
InitUpstreams ==
    /\ nprox \in 1..MaxProxies
    /\ \E m \in 0..MaxMaxfails :
          /\ maxfails = U32(m)
          /\ consec \in {f \in [Proxies -> FailValues(m)] :
                            \A p \in Proxies : p > nprox => f[p] = 0}
    /\ fails = [h \in Proxies |-> U32(consec[h])]
    /\ hcFailures = consec
    /\ unhealthy = consec
    /\ checking = [h \in Proxies |-> FALSE]
    /\ mu = [h \in Proxies |-> NoOwner]

\* One request in ServeDNS, for every configuration and every health state
\* the probes can have left, and every name.
InitServe ==
    /\ InitCallers
    /\ InitRequest
    /\ InitUpstreams
    /\ InitEntry("ServeDNS")
    /\ qname \in QNames
    /\ InitZone
    /\ InitTransportPlain
    /\ InitLookupPlain
    /\ InitMessage

NextServe == ServeDNS

SpecServe == InitServe /\ [][NextServe]_vars

\* The names a request comes with to each method: ServeDNS and Lookup get a
\* name of the zone, Forward one in the zone or one outside.
EntryNames(e) ==
    IF e = "Forward"
       THEN {<<"org", "example", "www">>, <<"org", "other">>}
       ELSE {<<"org", "example", "www">>}

\* One request handed to ServeDNS, to Forward or to Lookup, for every
\* configuration and every health state.
InitForward ==
    /\ InitCallers
    /\ InitRequest
    /\ InitUpstreams
    /\ \E e \in Entries :
          /\ InitEntry(e)
          /\ qname \in EntryNames(e)
    /\ InitZone
    /\ InitTransportPlain
    /\ InitLookupPlain
    /\ InitMessage

NextForward == ServeDNS \/ Forward \/ Lookup

SpecForward == InitForward /\ [][NextForward]_vars

\* The zones, the ignored names and the question names the match is tried on:
\* a zone that is itself ignored, a zone above an ignored name, names at, in,
\* beside and above the zone.
Zones == {<<"org">>, <<"org", "example">>}
IgnoreZones == {<<"org", "example">>, <<"org", "example", "internal">>}
MatchNames == {<<"org">>,
               <<"org", "example">>,
               <<"org", "example", "www">>,
               <<"org", "example", "internal">>,
               <<"org", "example", "internal", "db">>,
               <<"org", "examples">>,
               <<"net", "example">>}

\* One request at the match of ServeDNS, for every zone, every set of ignored
\* names and every question name.
InitMatch ==
    /\ InitHosts
    /\ InitCallers
    /\ InitRequest
    /\ InitEntry("ServeDNS")
    /\ nprox = 1
    /\ maxfails = U32(0)
    /\ from \in Zones
    /\ ignored \in SUBSET IgnoreZones
    /\ qname \in MatchNames
    /\ InitTransportPlain
    /\ InitLookupPlain
    /\ InitMessage

NextMatch == ServeMatch

SpecMatch == InitMatch /\ [][NextMatch]_vars

\* The transports a client can have used (state.Proto()).
ClientProtos == {"udp", "tcp"}

\* One matching request over one or two healthy upstreams, for every
\* f.forceTCP, every choice of the upstreams with a TLS config and every
\* transport of the client.
InitTransport ==
    /\ InitHosts
    /\ InitCallers
    /\ InitRequest
    /\ InitEntry("ServeDNS")
    /\ nprox \in 1..2
    /\ maxfails = U32(0)
    /\ qname = <<"org", "example", "www">>
    /\ InitZone
    /\ forceTCP \in BOOLEAN
    /\ tls \in {f \in [Proxies -> BOOLEAN] : \A p \in Proxies : p > nprox => ~f[p]}
    /\ cproto \in ClientProtos
    /\ InitLookupPlain
    /\ InitMessage

NextTransport == ServeDNS

SpecTransport == InitTransport /\ [][NextTransport]_vars

\* The OPT records a request can come in with: none, the large size with DO,
\* a size without DO, the smallest size with DO.
ReqOpts == {NoOpt, Opt(4096, TRUE), Opt(1232, FALSE), Opt(512, TRUE)}

\* The names Lookup is called with: one in the zone, one outside.
LookupNames == {LookupName, <<"net", "elsewhere">>}

\* One call of Lookup over one or two healthy upstreams, for every OPT record
\* of the request and every name and type.
InitLookup ==
    /\ InitHosts
    /\ InitCallers
    /\ InitRequest
    /\ InitEntry("Lookup")
    /\ nprox \in 1..2
    /\ maxfails = U32(0)
    /\ qname \in {<<"org", "example", "www">>, <<"org", "other">>}
    /\ InitZone
    /\ InitTransportPlain
    /\ ropt \in ReqOpts
    /\ lname \in LookupNames
    /\ ltyp \in LookupTypes
    /\ InitMessage

NextLookup == Lookup \/ Forward

SpecLookup == InitLookup /\ [][NextLookup]_vars

\* The uint32 that is k below the largest, 2^32 - 1.
TopU32(k) == [hi |-> Uint16Mod - 1, lo |-> Uint16Mod - 1 - k]

\* The health checks of upstreams that have failed every probe for a long
\* time: each failure counter is at the largest uint32 or one below it.
InitWrap ==
    /\ fails \in {f \in [Proxies -> {U32(0), TopU32(0), TopU32(1)}] :
                     \A h \in Proxies : f[h] = U32(0) <=> h \notin ProbedHosts}
    /\ checking = [h \in Proxies |-> FALSE]
    /\ mu = [h \in Proxies |-> NoOwner]
    /\ hcFailures = [h \in Proxies |-> 0]
    /\ consec = [h \in Proxies |-> 0]
    /\ unhealthy = [h \in Proxies |-> 0]
    /\ InitCallers
    /\ InitRequest
    /\ InitEntry("ServeDNS")
    /\ nprox = Cardinality(ProbedHosts)
    /\ maxfails = U32(1)
    /\ qname = Origin
    /\ InitZone
    /\ InitTransportPlain
    /\ InitLookupPlain
    /\ InitMessage

NextWrap == \E c \in Callers : Check(c)

SpecWrap == InitWrap /\ [][NextWrap]_vars

\* The health checks of one upstream, every caller probing it, with the
\* scheduling the reinstatement claim assumes:
\* every call that has started goes on (the exchange returns within its
\* timeout, sync.Mutex hands the lock to a waiter), Check keeps being called
\* on every probed upstream, and an upstream that is asked again and again
\* answers some exchange.
Fairness ==
    /\ \A c \in Callers :
          /\ WF_vars(CheckTest(c))
          /\ WF_vars(\E exch \in ExchangeResults : CheckSend(c, exch))
          /\ WF_vars(CheckUpdate(c))
          /\ SF_vars(CheckRelock(c))
          /\ WF_vars(CheckClear(c))
    /\ \A h \in FairHosts :
          /\ SF_vars(\E c \in Callers : CheckLock(c, h))
          /\ SF_vars(\E c \in Callers :
                        chost[c] = h /\ \E exch \in Healthy : CheckSend(c, exch))

NextFair == \E c \in Callers : CheckOn(c, FairHosts)

FairSpec == Init /\ [][NextFair]_vars /\ Fairness

\* ------------------------------------------------------- health properties

\* The calls on upstream h that are at one of the given places.
CallsAt(h, places) == {c \in Callers : chost[c] = h /\ pc[c] \in places}

\* C1: on every upstream, under every interleaving of the callers of Check,
\* at most one call is inside h.send (the network exchange) at any time.
C1_OneExchangeInFlight ==
    \A h \in Proxies : Cardinality(CallsAt(h, {"send"})) <= 1

\* C1 witness: a second call of Check holds the lock on an upstream whose
\* exchange is in flight.
C1_Witness ==
    \E c1, c2 \in Callers :
        /\ c1 # c2
        /\ chost[c1] = chost[c2]
        /\ pc[c1] = "send"
        /\ pc[c2] = "L16"

\* C2: a call of Check that finds a probe in flight returns in its next step
\* without an exchange and leaves the failure counter, the failure signal and
\* the in-flight flag as they were; and a call never holds the upstream's lock
\* while its exchange runs or while it waits to lock again, so the lock a new
\* call needs is never kept for the length of an exchange.
C2_DebouncedIsNoOp ==
    [][\A c \in Callers :
          /\ (pc[c] = "L16" /\ checking[chost[c]] /\ pc'[c] # "L16")
                => /\ pc'[c] = "idle"
                   /\ returned'[c] = "debounced"
                   /\ UNCHANGED <<fails, checking, hcFailures, consec, unhealthy>>
                   /\ mu'[chost[c]] = NoOwner
          /\ pc'[c] \in {"send", "L25", "L35"} => mu'[chost'[c]] # c]_vars

\* C2 witness: one call returned debounced while another call's exchange is in
\* flight.
C2_Witness ==
    \E c1, c2 \in Callers :
        /\ c1 # c2
        /\ pc[c1] = "send"
        /\ pc[c2] = "idle"
        /\ returned[c2] = "debounced"

\* C3: the in-flight flag of an upstream is set exactly while a call that set
\* it is between line 22 and line 36; so with no call executing on the
\* upstream the flag is false, after a healthy and after an unhealthy probe.
C3_FlagClearedOnExit ==
    \A h \in Proxies :
        checking[h] <=> CallsAt(h, {"send", "L25", "L35", "L36"}) # {}

\* C3 witness: an unhealthy and then a healthy probe of an upstream have
\* returned, no call is executing and the flag is false.
C3_Witness ==
    \E h \in Proxies :
        /\ unhealthy[h] > 0
        /\ consec[h] = 0
        /\ ~checking[h]
        /\ \A c \in Callers : pc[c] = "idle"
        /\ \E c \in Callers : returned[c] = "probed"

\* C4: a probe whose exchange returned no error or the truncated-response
\* error sets the counter to 0 and emits no failure signal; and a counter
\* that was not 0 becomes 0 only by such a probe.
C4_HealthyResets ==
    [][/\ \A c \in Callers :
             (pc[c] = "L25" /\ pc'[c] # "L25" /\ cexch[c] \in Healthy)
                => /\ fails'[chost[c]] = U32(0)
                   /\ hcFailures' = hcFailures
       /\ \A h \in Proxies :
             (fails[h] # U32(0) /\ fails'[h] = U32(0))
                => \E c \in Callers :
                      /\ pc[c] = "L25" /\ chost[c] = h
                      /\ cexch[c] \in Healthy
                      /\ pc'[c] = "L35"]_vars

\* C4 witness: a truncated answer has reset a counter that was not 0.
C4_Witness ==
    \E c \in Callers :
        /\ pc[c] = "L35"
        /\ cexch[c] = "ErrTruncated"
        /\ before[c] # U32(0)
        /\ fails[chost[c]] = U32(0)

\* C5: an unhealthy probe adds exactly 1 to the counter and emits exactly one
\* failure signal: outside lines 24-33 the counter is the number of unhealthy
\* exchanges completed since the last healthy one and the signal count is the
\* number of unhealthy exchanges; a call between the two is exactly its own
\* update behind.
C5_CounterCountsFailures ==
    \A h \in Proxies :
        /\ CallsAt(h, {"L25"}) = {}
              => /\ fails[h] = U32(consec[h])
                 /\ hcFailures[h] = unhealthy[h]
        /\ \A c \in CallsAt(h, {"L25"}) :
              IF cexch[c] \in Healthy
                 THEN consec[h] = 0 /\ hcFailures[h] = unhealthy[h]
                 ELSE /\ U32(consec[h]) = AddUint32(fails[h], 1)
                      /\ unhealthy[h] = hcFailures[h] + 1
        /\ \A c \in CallsAt(h, {"L35", "L36"}) :
              cexch[c] \notin Healthy => fails[h] = AddUint32(before[c], 1)

\* C5 witness: two unhealthy probes in a row have been counted.
C5_Witness ==
    \E h \in Proxies :
        /\ fails[h] = U32(2)
        /\ consec[h] = 2
        /\ hcFailures[h] = 2
        /\ CallsAt(h, {"send", "L25", "L35", "L36"}) = {}

\* ------------------------------------------------------ request properties

\* The number a uint32 stands for (for the small values of the model).
Val(u) == u.hi * Uint16Mod + u.lo

\* How a trial can fail.
TrialFailures == {"dialfail", "writefail", "readfail"}

\* The request matched and is past f.list().
InLoop == rpc \in {"loop", "dial", "write", "read", "relay"}
             \/ (rpc = "done" /\ nextCalls = 0)

\* C6: the request's call of down(maxfails) on an upstream answers true
\* (the upstream is skipped) exactly when maxfails is not 0 and the failure
\* counter is strictly greater than maxfails, and the call changes neither the
\* counters nor the in-flight flags.
C6_DownIffExceeds ==
    [][(rpc = "loop" /\ idx <= Len(order) /\ rpc' # "done")
          => /\ (rpc' = "loop" /\ idx' = idx + 1)
                   <=> (Val(maxfails) # 0
                          /\ Val(fails[order[idx]]) > Val(maxfails))
             /\ (rpc' = "dial" /\ idx' = idx)
                   <=> (Val(maxfails) = 0
                          \/ Val(fails[order[idx]]) <= Val(maxfails))
             /\ UNCHANGED <<fails, checking>>]_vars

\* C6 witness: with maxfails not 0, an upstream whose counter equals maxfails
\* was tried and one whose counter exceeds it was skipped.
C6_Witness ==
    /\ Val(maxfails) # 0
    /\ \E i, j \in 1..Len(trace) :
          /\ trace[i].ev # "skip"
          /\ fails[trace[i].proxy] = maxfails
          /\ trace[j].ev = "skip"
          /\ Val(fails[trace[j].proxy]) = Val(maxfails) + 1

\* C6 witness of the other case: with maxfails 0 an upstream that has failures
\* was tried.
C6_WitnessDisabled ==
    /\ Val(maxfails) = 0
    /\ \E i \in 1..Len(trace) :
          /\ trace[i].ev # "skip"
          /\ Val(fails[trace[i].proxy]) > 0

\* C8: for every number of upstreams from 1 and every random outcome, the
\* order f.list() gave the request has the length of f.proxies and holds each
\* configured upstream exactly once.
C8_ListIsPermutation ==
    InLoop =>
        /\ Len(order) = nprox
        /\ \A p \in 1..nprox :
              Cardinality({i \in 1..Len(order) : order[i] = p}) = 1

\* C8 witness: three upstreams in an order that is not the configured one.
C8_Witness ==
    /\ InLoop
    /\ order = <<3, 1, 2>>

C9_WitnessAllDown ==
    /\ rpc = "done"
    /\ nprox = MaxProxies
    /\ Val(maxfails) > 0
    /\ Len(trace) = nprox
    /\ \A i \in 1..nprox : trace[i].ev = "skip"

\* C10: a reply is relayed only as the last event of the request; it is the
\* reply of the upstream at that place of the order, every upstream before it
\* in the order was skipped or failed, exactly one message is written to the
\* client, ServeDNS returns 0 and nil, and no later upstream is dialled.
C10_FirstSuccessWins ==
    /\ Len(wrote) <= 1
    /\ \A i \in 1..Len(trace) :
          /\ trace[i].proxy = order[i]
          /\ trace[i].ev = "ok" =>
                /\ i = Len(trace)
                /\ rpc = "done"
                /\ wrote = <<order[i]>>
                /\ result = [rcode |-> RcodeSuccess, err |-> "nil"]
                /\ \A j \in 1..(i - 1) : trace[j].ev \in TrialFailures \cup {"skip"}
                /\ \A j \in (i + 1)..Len(order) : dials[order[j]] = 0
    /\ wrote # <<>> => (trace # <<>> /\ trace[Len(trace)].ev = "ok")

\* C10 witness: of two upstreams the first failed its dial and the second
\* answered; the client has the second's reply.
C10_Witness ==
    /\ rpc = "done"
    /\ nprox = 2
    /\ Len(trace) = 2
    /\ trace[1].ev = "dialfail"
    /\ trace[2].ev = "ok"
    /\ wrote = <<order[2]>>

\* ---------------------------------------------------- reinstatement (C7)

\* C7: a healthy probe leaves its upstream not down for every maxfails; and,
\* Check being called again and again and the upstream answering, an upstream
\* that is down is eventually not down.
C7_Reinstated ==
    /\ [][\A c \in Callers :
             (pc[c] = "L25" /\ pc'[c] # "L25" /\ cexch[c] \in Healthy)
                => \A m \in 0..(MaxMaxfails + 1) : ~down(chost[c], U32(m))']_vars
    /\ \A h \in FairHosts : \A m \in 1..MaxMaxfails :
          down(h, U32(m)) ~> ~down(h, U32(m))

\* C7 witness: a healthy probe has reset the counter of an upstream that was
\* down for maxfails 1.
C7_Witness ==
    \E c \in Callers :
        /\ pc[c] = "L35"
        /\ cexch[c] = "nil"
        /\ Val(before[c]) > 1
        /\ ~down(chost[c], U32(1))

\* ------------------------------------------------ the trials of a request

\* The places of the trace at which upstream p's trial ended.
TrialsOf(p) == {i \in 1..Len(trace) : trace[i].proxy = p}

\* A trial is running: the request is between proxy.Dial and the relay.
InTrial == rpc \in {"dial", "write", "read", "relay"}

\* C11: the trials of one request run one after the other along the order,
\* and every upstream is tried at most once: an upstream is dialled at most
\* once and ends at most one trial, the trial of a later upstream of the order
\* runs only when every earlier one was skipped or has failed, and no upstream
\* beyond the place the loop is at has been dialled.
C11_TrialsSequential ==
    /\ \A p \in Proxies : dials[p] <= 1 /\ Cardinality(TrialsOf(p)) <= 1
    /\ \A i \in 1..Len(trace) : i <= Len(order) /\ trace[i].proxy = order[i]
    /\ InTrial =>
          /\ idx = Len(trace) + 1
          /\ \A i \in 1..Len(trace) : trace[i].ev \in TrialFailures \cup {"skip"}
    /\ \A j \in 1..Len(order) : dials[order[j]] > 0 => j <= idx
    /\ conn = "open" => rpc \in {"write", "read", "relay"}

\* C11 witness: the trial of the third upstream of the order is running after
\* the first failed on its read and the second on its write.
C11_Witness ==
    /\ rpc = "write"
    /\ idx = 3
    /\ trace[1].ev = "readfail"
    /\ trace[2].ev = "writefail"
    /\ dials[order[1]] = 1
    /\ dials[order[2]] = 1

\* Upstream p's trial has ended with one of the events evs.
EndedWith(p, evs) ==
    \E i \in 1..Len(trace) : trace[i].proxy = p /\ trace[i].ev \in evs

\* C12: a connection a trial got from proxy.Dial ends in exactly one way: it
\* is closed and never yielded when the write or the read failed, and it is
\* yielded once and never closed when the exchange succeeded; a trial that got
\* no connection closes and yields nothing, and no connection is left open
\* when ServeDNS has returned.
C12_ClosedOrYieldedOnce ==
    /\ \A p \in Proxies :
          IF EndedWith(p, {"writefail", "readfail"})
             THEN closes[p] = 1 /\ yields[p] = 0
             ELSE IF EndedWith(p, {"ok"})
                     THEN yields[p] = 1 /\ closes[p] = 0
                     ELSE closes[p] = 0 /\ yields[p] = 0
    /\ rpc = "done" => conn = "none"

\* C12 witness: the request ended with the first connection closed after a
\* failed read and the second yielded after its reply.
C12_Witness ==
    /\ rpc = "done"
    /\ Len(trace) = 2
    /\ trace[1].ev = "readfail"
    /\ trace[2].ev = "ok"
    /\ closes[order[1]] = 1
    /\ yields[order[2]] = 1

\* -------------------------------------------- request handling and health

\* Every trial of the request that has ended got no reply.
AllTrialsFailed ==
    /\ Len(trace) = nprox
    /\ \A i \in 1..Len(trace) : trace[i].ev \in TrialFailures \cup {"skip"}

\* C13: no step of ServeDNS, of Forward or of Lookup changes the failure
\* counter or the in-flight flag of any upstream, whether the step skips an
\* upstream, fails a trial or relays a reply; they are host.Check's alone.
C13_RequestsLeaveHealthAlone ==
    [][UNCHANGED <<fails, checking>>]_vars

\* C13 witness: a request handed to Lookup has ended, one of its trials having
\* failed on an upstream that was not down, with the counters and the flags
\* as the probes left them.
C13_Witness ==
    /\ entry = "Lookup"
    /\ rpc = "fdone"
    /\ \E i \in 1..Len(trace) :
          /\ trace[i].ev \in TrialFailures
          /\ fails[trace[i].proxy] = U32(0)
    /\ fails = [h \in Proxies |-> U32(consec[h])]
    /\ \A h \in Proxies : ~checking[h]

\* ------------------------------------------------------------- the match

\* The name is the zone or lies under it: the zone's labels are the name's
\* first labels from the root.
Within(zone, name) ==
    \E k \in 0..Len(name) : zone = [i \in 1..k |-> name[i]]

\* The name is matched as the specification words it.
MatchedBySpec ==
    /\ Within(from, qname)
    /\ \/ qname = from
       \/ \A z \in ignored : ~Within(z, qname)

\* C14: Forward.match answers true exactly when the question's name is within
\* f.from and either is f.from itself or is within none of f.ignored; and
\* ServeDNS goes on to the trial loop exactly for those names and hands every
\* other to the next plugin.
C14_MatchIffInZoneAndAllowed ==
    /\ match(qname) <=> MatchedBySpec
    /\ rpc # "start" => (rpc = "list" <=> MatchedBySpec)
    /\ rpc # "start" => (nextCalls = 1 <=> ~MatchedBySpec)

\* C14 witness: the zone's own name has matched although the zone is among
\* the ignored names.
C14_Witness ==
    /\ rpc = "list"
    /\ qname = from
    /\ from \in ignored

\* C14 witness: a name of the zone under an ignored name went to the next
\* plugin.
C14_WitnessIgnored ==
    /\ rpc = "done"
    /\ nextCalls = 1
    /\ Within(from, qname)
    /\ qname # from
    /\ \E z \in ignored : Within(z, qname)

\* -------------------------------------------------------- the pass-through

\* C15: when the name does not match, ServeDNS calls the next plugin once,
\* with the request message as it came in, and returns what that call
\* returned; it builds no trial order, checks and dials no upstream, writes
\* nothing to an upstream or to the client, logs nothing and records no
\* metric.
C15_NoMatchPassesThrough ==
    (rpc = "done" /\ ~match(qname)) =>
        /\ nextCalls = 1
        /\ nextLog = <<[msg |-> Msg(qname, OrigType, ropt), ret |-> result]>>
        /\ req = Msg(qname, OrigType, ropt)
        /\ order = <<>>
        /\ trace = <<>>
        /\ dialLog = <<>>
        /\ upmsgs = <<>>
        /\ wrote = <<>>
        /\ logs = <<>>
        /\ \A p \in Proxies :
              /\ dials[p] = 0 /\ yields[p] = 0 /\ closes[p] = 0
              /\ requestCount[p] = 0 /\ rcodeCount[p] = 0 /\ durations[p] = 0
              /\ fails[p] = U32(consec[p])
              /\ hcFailures[p] = consec[p]
              /\ ~checking[p]
        /\ \A c \in Callers : pc[c] = "idle"

\* C15 witness: a name under the ignored subzone went to the next plugin,
\* whose failure ServeDNS returned.
C15_Witness ==
    /\ rpc = "done"
    /\ qname = <<"org", "example", "internal", "db">>
    /\ ~match(qname)
    /\ nextCalls = 1
    /\ result = [rcode |-> RcodeServerFailure, err |-> "next"]

\* ----------------------------------------------------------- the transport

\* The transport kind the specification gives the trial of upstream p.
KindBySpec(p) ==
    IF tls[p] THEN "tcp-tls" ELSE IF forceTCP THEN "tcp" ELSE cproto

\* C16: every proxy.Dial of a trial is called with "tcp-tls" when the upstream
\* has a TLS config, whatever f.forceTCP and the client's transport are, else
\* with "tcp" when f.forceTCP is set, else with the transport the client used;
\* and the log line of a failed trial names the same proto.
C16_TransportKind ==
    /\ \A i \in 1..Len(dialLog) :
          dialLog[i].proto = KindBySpec(dialLog[i].proxy)
    /\ \A i \in 1..Len(logs) : logs[i].proto = KindBySpec(logs[i].proxy)
    /\ rpc \in {"write", "read", "relay"} =>
          (dialLog # <<>> /\ dialLog[Len(dialLog)].proxy = order[idx])

\* C16 witness: an upstream with a TLS config was dialled with "tcp-tls" for
\* a client on UDP although f.forceTCP is set.
C16_Witness ==
    /\ forceTCP
    /\ cproto = "udp"
    /\ \E i \in 1..Len(dialLog) :
          /\ tls[dialLog[i].proxy]
          /\ dialLog[i].proto = "tcp-tls"

\* C16 witness: an upstream without a TLS config was dialled with "tcp" for a
\* client on UDP because f.forceTCP is set.
C16_WitnessForced ==
    /\ forceTCP
    /\ cproto = "udp"
    /\ \E i \in 1..Len(dialLog) :
          /\ ~tls[dialLog[i].proxy]
          /\ dialLog[i].proto = "tcp"

\* ------------------------------------------- Forward against ServeDNS

\* The request is past f.list(), in ServeDNS or in Forward.
PastList ==
    \/ rpc \in {"loop", "dial", "write", "read", "relay"}
    \/ rpc \in {"floop", "fconnect", "fdone"}
    \/ (rpc = "done" /\ nextCalls = 0)

\* The method the request was handed to has returned.
Returned == rpc \in {"done", "fdone"}

\* The last trial of the request got a reply.
LastTrialOk == trace # <<>> /\ trace[Len(trace)].ev = "ok"

\* The trial loop as the request's events show it: the trials follow the
\* order, a trial is a skip exactly when its upstream is down, an upstream is
\* dialled exactly when its trial is not a skip, a reply ends the loop, and
\* the loop ends only on a reply or after the last upstream.
TrialLoop ==
    /\ Len(trace) <= Len(order)
    /\ \A i \in 1..Len(trace) :
          /\ trace[i].proxy = order[i]
          /\ trace[i].ev = "skip" <=> Down(order[i], maxfails)
          /\ dials[order[i]] = IF trace[i].ev = "skip" THEN 0 ELSE 1
          /\ trace[i].ev = "ok" => (i = Len(trace) /\ Returned)
    /\ \A j \in (Len(trace) + 2)..Len(order) : dials[order[j]] = 0
    /\ Returned => (LastTrialOk \/ Len(trace) = Len(order))

\* C17: a call of Forward runs the trial loop of ServeDNS: for every order,
\* health state and outcome of the exchanges the events of both obey the same
\* rule for skipping, trying and stopping.  Forward returns the reply of the
\* first upstream that answered with a nil error, and nil with errNoHealthy
\* when every upstream was skipped or failed; it never matches the name
\* against the zone, so it neither refuses a name outside the zone nor calls
\* the next plugin.
C17_ForwardRunsTheTrialLoop ==
    /\ PastList => TrialLoop
    /\ rpc = "fdone" =>
          IF LastTrialOk
             THEN fresult = [msg |-> trace[Len(trace)].proxy, err |-> "nil"]
             ELSE /\ fresult = [msg |-> 0, err |-> "errNoHealthy"]
                  /\ AllTrialsFailed
    /\ rpc # "fdone" => fresult = NoForwardResult
    /\ entry # "ServeDNS" =>
          /\ nextCalls = 0
          /\ result = NoResult

\* C17 witness: Forward, called with a name outside the zone, skipped a down
\* upstream, failed on the second and returned the reply of the third.
C17_Witness ==
    /\ entry = "Forward"
    /\ ~match(qname)
    /\ rpc = "fdone"
    /\ Len(trace) = 3
    /\ trace[1].ev = "skip"
    /\ trace[2].ev = "readfail"
    /\ trace[3].ev = "ok"
    /\ fresult = [msg |-> order[3], err |-> "nil"]

\* C17 witness: Forward, called with a name outside the zone, returned nil and
\* errNoHealthy after every upstream was skipped or failed.
C17_WitnessExhausted ==
    /\ entry = "Forward"
    /\ ~match(qname)
    /\ rpc = "fdone"
    /\ nprox = 2
    /\ AllTrialsFailed
    /\ trace[1].ev = "dialfail"
    /\ fresult = [msg |-> 0, err |-> "errNoHealthy"]

\* C17 witness: ServeDNS ended a request the same way.
C17_WitnessServeDNS ==
    /\ entry = "ServeDNS"
    /\ rpc = "done"
    /\ Len(trace) = 3
    /\ trace[1].ev = "skip"
    /\ trace[2].ev = "readfail"
    /\ trace[3].ev = "ok"

\* -------------------------------------------------- the errors of a trial

\* The trials of the request that failed, in their order.
FailedTrial(t) == t.ev \in TrialFailures
FailedTrials == SelectSeq(trace, FailedTrial)

\* What the log line of a failed trial says failed.
LogWhat(ev) ==
    CASE ev = "dialfail" -> "connect"
      [] ev = "writefail" -> "write"
      [] ev = "readfail" -> "read"

\* The errors ServeDNS can return that are not the error of a trial.
OwnErrors == {"pending", "nil", "errNoHealthy", "next"}

\* C18 as the specification has it: every failed trial is logged and recorded
\* in a metric of its upstream, and its error does not reach the client.
C18_FailuresLoggedAndCounted ==
    /\ Len(logs) = Len(FailedTrials)
    /\ \A i \in 1..Len(trace) :
          trace[i].ev \in TrialFailures =>
              requestCount[trace[i].proxy] + rcodeCount[trace[i].proxy]
                 + durations[trace[i].proxy] > 0
    /\ result.err \in OwnErrors

\* C18: every failed trial of a request in ServeDNS writes one log line, which
\* names its upstream and what failed, and records no metric: the request
\* count, the rcode count and the duration of an upstream are recorded once,
\* for the trial that got a reply, and never for a trial that failed.  The
\* error of a trial is never what ServeDNS returns and nothing is written to
\* the client for it; the request ends only on a reply or after the last
\* upstream of the order.
C18_FailuresLoggedNotPropagated ==
    /\ Len(logs) = Len(FailedTrials)
    /\ \A i \in 1..Len(logs) :
          /\ logs[i].proxy = FailedTrials[i].proxy
          /\ logs[i].what = LogWhat(FailedTrials[i].ev)
    /\ \A p \in Proxies :
          LET n == IF EndedWith(p, {"ok"}) THEN 1 ELSE 0
          IN  requestCount[p] = n /\ rcodeCount[p] = n /\ durations[p] = n
    /\ result.err \in OwnErrors
    /\ wrote # <<>> => LastTrialOk
    /\ (rpc = "done" /\ nextCalls = 0) => (LastTrialOk \/ Len(trace) = nprox)
    /\ (rpc # "done" /\ trace # <<>>) => result = NoResult

\* C18 witness: a request whose first trial failed on its dial and whose
\* second failed on its read got the third upstream's reply: two log lines,
\* no metric for the two, a nil error.
C18_Witness ==
    /\ rpc = "done"
    /\ Len(trace) = 3
    /\ trace[1].ev = "dialfail"
    /\ trace[2].ev = "readfail"
    /\ trace[3].ev = "ok"
    /\ Len(logs) = 2
    /\ requestCount[order[1]] = 0
    /\ requestCount[order[2]] = 0
    /\ requestCount[order[3]] = 1
    /\ result = [rcode |-> RcodeSuccess, err |-> "nil"]

\* ------------------------------------------------------------------ Lookup

\* C19: the message Lookup hands to Forward, and every message that then goes
\* to an upstream, has the question (name, typ) Lookup was called with and the
\* OPT record of the request: the same payload size and the same DO bit, or
\* none when the request has none.  The request message stays as it came in,
\* and what Lookup returns is what Forward returns for the new message: the
\* reply of the upstream that answered it, or nil and errNoHealthy.
C19_LookupBuildsQuery ==
    /\ rpc # "lookup" =>
          /\ sreq.name = lname
          /\ sreq.qtype = ltyp
          /\ sreq.opt.present = ropt.present
          /\ ropt.present => (sreq.opt.size = ropt.size /\ sreq.opt.do = ropt.do)
    /\ req = Msg(qname, OrigType, ropt)
    /\ \A i \in 1..Len(upmsgs) : upmsgs[i].msg = Msg(lname, ltyp, ropt)
    /\ rpc = "fdone" =>
          IF LastTrialOk
             THEN /\ fresult = [msg |-> trace[Len(trace)].proxy, err |-> "nil"]
                  /\ upmsgs[Len(upmsgs)] = [proxy |-> fresult.msg,
                                            msg |-> Msg(lname, ltyp, ropt)]
             ELSE fresult = [msg |-> 0, err |-> "errNoHealthy"]

\* C19 witness: for a request with payload size 4096 and DO, Lookup of another
\* name and type got the reply of an upstream that was sent that question with
\* size 4096 and DO.
C19_Witness ==
    /\ rpc = "fdone"
    /\ ropt = Opt(4096, TRUE)
    /\ lname # qname
    /\ ltyp # OrigType
    /\ LastTrialOk
    /\ upmsgs # <<>>
    /\ upmsgs[Len(upmsgs)].msg.name = lname
    /\ upmsgs[Len(upmsgs)].msg.opt.size = 4096
    /\ upmsgs[Len(upmsgs)].msg.opt.do

\* C19 witness: for a request without an OPT record the new message has none.
C19_WitnessNoOpt ==
    /\ rpc = "fdone"
    /\ ~ropt.present
    /\ upmsgs # <<>>
    /\ ~upmsgs[1].msg.opt.present

\* ------------------------------------------------- the range of the counter

\* A call of Check on upstream h stores its healthy result in this step.
HealthyStore(h) ==
    \E c \in Callers :
        /\ chost[c] = h
        /\ pc[c] = "L25"
        /\ pc'[c] = "L35"
        /\ cexch[c] \in Healthy

\* C20: for every maxfails above 0, an upstream that is down stays down at
\* every step that is not the store of a healthy probe, however many unhealthy
\* probes follow; and its failure counter never gets smaller except by that
\* store, which makes it 0: no number of failures wraps it around.
C20_DownStaysDown ==
    [][\A h \in Proxies :
          /\ \A m \in 1..MaxMaxfails :
                (down(h, U32(m)) /\ ~down(h, U32(m))') => HealthyStore(h)
          /\ GtU32(fails[h], fails'[h]) =>
                (HealthyStore(h) /\ fails'[h] = U32(0))]_vars

====
